---- MODULE Spec2Model ----
(* Chat-with-PDF (src/app.py): the Streamlit script, the RAGSystem class and *)
(* the persistent vector store it opens, as a state machine.  One action is  *)
(* one run of the script for one widget event; the streaming chat turn is    *)
(* split at the generator's yields, where the consumer gets control.         *)
EXTENDS Integers, Sequences, FiniteSets, TLC

VARIABLES
    pdf,                 \* st.file_uploader value: an uploaded file or "None"
    pdf_name,            \* st.session_state.pdf_name
    processing_complete, \* st.session_state.processing_complete
    messages,            \* st.session_state.messages, by the role of each entry
    ollama_model,        \* st.session_state["ollama_model"]
    db_path_exists,      \* ./PDF_chroma_db exists
    db_subdir,           \* the store directory holds an entry that is a directory
    collection,          \* collection "pdf_content": the chunks, in insertion order
    rag,                 \* what RAGSystem.__init__ did on the last construction
    ingest_runs,         \* ingestions started since processing_complete was last reset
    pc,                  \* position of the script: "idle", "streaming", "write"
    prompt,              \* the question of the chat turn
    gen,                 \* state of the generator returned by generate_response
    gen_error,           \* exception the generator raised
    return_value,        \* value carried by the generator's return statement
    embed_failed,        \* the embedding provider was unavailable for this query
    retrieved_docs,      \* generate_response: retrieved_docs
    fragments,           \* fragments produced so far by ollama_llm.stream
    gen_streamed,        \* generate_response: streamed_response
    observed,            \* items the consumer received from the generator
    streamed_response,   \* chat loop: streamed_response
    metadata,            \* chat loop: (token_count, response_time), <<>> while unbound
    rendered,            \* texts passed to response_placeholder.markdown
    remove_tags_calls,   \* calls of remove_tags in this turn
    response,            \* content of the assistant message appended last
    num_tokens_calls,    \* calls of ollama_llm.get_num_tokens in this turn
    stream_calls,        \* calls of ollama_llm.stream in this turn
    interrupts           \* script runs stopped before their end

session == <<pdf, pdf_name, processing_complete, messages, ollama_model, ingest_runs>>
store   == <<db_path_exists, db_subdir, collection>>
turn    == <<prompt, gen, gen_error, return_value, embed_failed, retrieved_docs,
             fragments, gen_streamed, observed, streamed_response, metadata,
             rendered, remove_tags_calls, response, num_tokens_calls, stream_calls>>
vars    == <<session, store, rag, pc, turn, interrupts>>

-----------------------------------------------------------------------------
(* Bounds of the model *)
MaxFragments  == 3   \* fragments one stream produces at most
MaxChunks     == 3   \* chunks the collection holds at most
MaxInterrupts == 1   \* stopped script runs
MaxTurns      == 1   \* chat turns before Clear Chat in Spec and SpecStream

(* Program constants *)
max_messages == 60
n_results    == 5

PdfFiles        == {"a.pdf", "b.pdf"}
Models          == {"deepseek-r1:7b", "llama3"}
Queries         == {"q1", "q2"}
CollectionNames == {"", "None", "pdf_content"}   \* "None": no name given
ElapsedTimes    == {3, 75}            \* seconds a stream takes
Fallback        == <<"No relevant information found.">>

(* Text is a sequence of pieces; "<thi" \o "nk>" spells the opening tag and  *)
(* "</thi" \o "nk>" the closing one, so a fragment can end inside a tag.     *)
OpenTag   == <<"<thi", "nk>">>
CloseTag  == <<"</thi", "nk>">>
Fragments == { <<"a">>, <<" ">>, <<"<thi">>, <<"nk>">>, <<"</thi", "nk>">>, <<>> }
PlainFragments == { <<"a">> }

-----------------------------------------------------------------------------
(* Pure helpers *)

\* os.path.splitext(pdf.name)[0]
splitext0(f) == IF f = "a.pdf" THEN "a" ELSE "b"

\* text_splitter.split_text(text) wrapped into Documents: the chunks of a file
split_text(f) ==
    IF f = "a.pdf" THEN << [doc |-> "a.pdf", text |-> "a1"] >>
                   ELSE << [doc |-> "b.pdf", text |-> "b1"], [doc |-> "b.pdf", text |-> "b2"] >>

Min(a, b) == IF a < b THEN a ELSE b

\* RAGSystem._format_time
_format_time(response_time) ==
    LET minutes == response_time \div 60
        seconds == response_time % 60
    IN  IF minutes # 0 THEN ToString(minutes) \o "m " \o ToString(seconds) \o "s"
                       ELSE "Time: " \o ToString(seconds) \o "s"

IsAt(s, i, tag) == i + Len(tag) - 1 <= Len(s) /\ SubSeq(s, i, i + Len(tag) - 1) = tag

FirstAt(s, from, tag) ==
    LET hits == {i \in from..Len(s) : IsAt(s, i, tag)}
    IN  IF hits = {} THEN 0 ELSE CHOOSE i \in hits : \A j \in hits : i <= j

\* re.sub(r"<think>[\s\S]*?</think>", "", text)
RECURSIVE re_sub_think(_)
re_sub_think(s) ==
    LET o == FirstAt(s, 1, OpenTag)
        c == IF o = 0 THEN 0 ELSE FirstAt(s, o + Len(OpenTag), CloseTag)
    IN  IF o = 0 \/ c = 0 THEN s
        ELSE SubSeq(s, 1, o - 1) \o re_sub_think(SubSeq(s, c + Len(CloseTag), Len(s)))

\* str.strip()
RECURSIVE strip(_)
strip(s) ==
    IF s = <<>> THEN s
    ELSE IF Head(s) = " " THEN strip(Tail(s))
    ELSE IF s[Len(s)] = " " THEN strip(SubSeq(s, 1, Len(s) - 1))
    ELSE s

remove_tags(text) == strip(re_sub_think(text))

RECURSIVE Concat(_)
Concat(fs) == IF fs = <<>> THEN <<>> ELSE Head(fs) \o Concat(Tail(fs))

TextItem(s) == [kind |-> "str",   text |-> s,    meta |-> <<>>]
MetaItem(m) == [kind |-> "tuple", text |-> <<>>, meta |-> m]

NoResponse        == [kind |-> "none",   text |-> <<>>, meta |-> <<>>, error |-> "none"]
ErrorResponse(e)  == [kind |-> "error",  text |-> <<>>, meta |-> <<>>, error |-> e]

-----------------------------------------------------------------------------
(* RAGSystem *)

\* `not collection_name`: true of the empty string and of None
Falsy(collection_name) == collection_name \in {"", "None"}

RAGSystem_init_late(collection_name) ==
    [ collection_name |-> collection_name,
      raised          |-> Falsy(collection_name),
      client          |-> TRUE,
      collection_open |-> TRUE ]

\* RAGSystem.__init__: the name is validated before the store is opened
RAGSystem_init(collection_name) ==
    IF Falsy(collection_name)
    THEN [ collection_name |-> collection_name, raised |-> TRUE,
           client |-> FALSE, collection_open |-> FALSE ]
    ELSE [ collection_name |-> collection_name, raised |-> FALSE,
           client |-> TRUE, collection_open |-> TRUE ]

NoRag == [collection_name |-> "unconstructed", raised |-> FALSE, client |-> FALSE, collection_open |-> FALSE]

\* rag_system = RAGSystem(collection_name="pdf_content", ...): a persistent
\* client creates the store directory when it is missing
AppRag == RAGSystem_init("pdf_content")

\* A run of the script starts with fresh locals
ResetLocals ==
    /\ gen_error' = "none"
    /\ return_value' = <<>>
    /\ embed_failed' = FALSE
    /\ retrieved_docs' = <<>>
    /\ fragments' = <<>>
    /\ gen_streamed' = <<>>
    /\ observed' = <<>>
    /\ streamed_response' = <<>>
    /\ metadata' = <<>>
    /\ rendered' = <<>>
    /\ remove_tags_calls' = <<>>
    /\ response' = NoResponse
    /\ num_tokens_calls' = 0
    /\ stream_calls' = 0

ResetTurn ==
    /\ prompt' = "none"
    /\ gen' = "none"
    /\ ResetLocals

Init ==
    /\ pdf = "None"
    /\ pdf_name = "None"
    /\ processing_complete = FALSE
    /\ messages = <<>>
    /\ ollama_model = "deepseek-r1:7b"
    /\ db_path_exists = TRUE
    /\ db_subdir = FALSE
    /\ collection = <<>>
    /\ rag = AppRag
    /\ ingest_runs = 0
    /\ pc = "idle"
    /\ prompt = "none"
    /\ gen = "none"
    /\ gen_error = "none"
    /\ return_value = <<>>
    /\ embed_failed = FALSE
    /\ retrieved_docs = <<>>
    /\ fragments = <<>>
    /\ gen_streamed = <<>>
    /\ observed = <<>>
    /\ streamed_response = <<>>
    /\ metadata = <<>>
    /\ rendered = <<>>
    /\ remove_tags_calls = <<>>
    /\ response = NoResponse
    /\ num_tokens_calls = 0
    /\ stream_calls = 0
    /\ interrupts = 0

-----------------------------------------------------------------------------
(* Script run: upload, ingestion, session *)

\* "Remove previous vector database": os.remove on every entry of the store
\* directory, then os.rmdir.  os.remove raises on an entry that is a
\* directory; `first` is the kind of entry os.listdir returns first.
RemoveVectorDb(exists, subdir, coll, first) ==
    IF ~exists THEN [exists |-> FALSE, subdir |-> FALSE, coll |-> coll, raised |-> FALSE]
    ELSE IF ~subdir THEN [exists |-> FALSE, subdir |-> FALSE, coll |-> <<>>, raised |-> FALSE]
    ELSE IF first = "dir" THEN [exists |-> TRUE, subdir |-> TRUE, coll |-> coll, raised |-> TRUE]
    ELSE [exists |-> TRUE, subdir |-> TRUE, coll |-> <<>>, raised |-> TRUE]

\* A file is put into the uploader: "If a new PDF is uploaded, reset session state"
Upload(f, first) ==
    /\ pc = "idle"
    /\ pdf # f
    /\ pdf' = f
    /\ IF pdf_name # splitext0(f)
       THEN LET r == RemoveVectorDb(db_path_exists, db_subdir, collection, first)
            IN  /\ pdf_name' = splitext0(f)
                /\ processing_complete' = FALSE
                /\ ingest_runs' = 0
                /\ db_subdir' = r.subdir
                /\ collection' = r.coll
                /\ IF r.raised
                   THEN /\ db_path_exists' = r.exists
                        /\ rag' = NoRag
                   ELSE /\ db_path_exists' = (r.exists \/ AppRag.client)
                        /\ rag' = AppRag
       ELSE /\ UNCHANGED <<pdf_name, processing_complete, ingest_runs, db_subdir, collection>>
            /\ db_path_exists' = (db_path_exists \/ AppRag.client)
            /\ rag' = AppRag
    /\ ResetTurn
    /\ UNCHANGED <<messages, ollama_model, pc, interrupts>>

\* The file is taken out of the uploader
RemoveUpload ==
    /\ pc = "idle"
    /\ pdf # "None"
    /\ pdf' = "None"
    /\ db_path_exists' = (db_path_exists \/ AppRag.client)
    /\ rag' = AppRag
    /\ ResetTurn
    /\ UNCHANGED <<pdf_name, processing_complete, messages, ollama_model, ingest_runs,
                   db_subdir, collection, pc, interrupts>>

FlagOnSuccess(ok) == ok

\* st.session_state.processing_complete = True "when processing starts"
FlagOnStart(ok) == TRUE

\* "Start Processing" is clicked: extraction (in either processing mode),
\* chunking, Chroma.from_documents.  ok: extraction and embedding succeed.
\* What the store writes into its directory is the store library's choice:
\* sub tells whether it keeps part of the collection in a sub-directory.
StartProcessing(ok, sub) ==
    /\ pc = "idle"
    /\ pdf # "None"
    /\ ~processing_complete
    /\ processing_complete' = FlagOnStart(ok)
    /\ ingest_runs' = ingest_runs + 1
    /\ IF ok
       THEN /\ Len(collection) + Len(split_text(pdf)) <= MaxChunks
            /\ collection' = collection \o split_text(pdf)
            /\ db_subdir' = (db_subdir \/ sub)
            /\ db_path_exists' = TRUE
            /\ rag' = AppRag
       ELSE /\ UNCHANGED <<collection, db_subdir, db_path_exists>>
            /\ rag' = NoRag
    /\ ResetTurn
    /\ UNCHANGED <<pdf, pdf_name, messages, ollama_model, pc, interrupts>>

\* st.button("Clear Chat")
ClearChat ==
    /\ pc = "idle"
    /\ messages # <<>>
    /\ messages' = <<>>
    /\ db_path_exists' = (db_path_exists \/ AppRag.client)
    /\ rag' = AppRag
    /\ ResetTurn
    /\ UNCHANGED <<pdf, pdf_name, processing_complete, ollama_model, ingest_runs,
                   db_subdir, collection, pc, interrupts>>

\* Another model is selected: "Clear messages when changing model"
SelectModel(m) ==
    /\ pc = "idle"
    /\ m # ollama_model
    /\ ollama_model' = m
    /\ messages' = <<>>
    /\ db_path_exists' = (db_path_exists \/ AppRag.client)
    /\ rag' = AppRag
    /\ ResetTurn
    /\ UNCHANGED <<pdf, pdf_name, processing_complete, ingest_runs,
                   db_subdir, collection, pc, interrupts>>

\* A new session: session state is initialised again, the store directory stays
SessionRestart ==
    /\ pc = "idle"
    /\ pdf' = "None"
    /\ pdf_name' = "None"
    /\ processing_complete' = FALSE
    /\ messages' = <<>>
    /\ ollama_model' = "deepseek-r1:7b"
    /\ ingest_runs' = 0
    /\ db_path_exists' = (db_path_exists \/ AppRag.client)
    /\ rag' = AppRag
    /\ ResetTurn
    /\ UNCHANGED <<db_subdir, collection, pc, interrupts>>

\* RAGSystem(collection_name) called by a user of the class
Construct(name) ==
    /\ pc = "idle"
    /\ rag' = RAGSystem_init(name)
    /\ db_path_exists' = (db_path_exists \/ rag'.client)
    /\ UNCHANGED <<session, db_subdir, collection, pc, turn, interrupts>>

-----------------------------------------------------------------------------
(* Chat turn: RAGSystem.generate_response and the loop that consumes it *)

EmbedOrZeroVector(up) == "vector"

\* RAGSystem._generate_embeddings: embed_query raises when the provider is down
_generate_embeddings(up) == IF up THEN "vector" ELSE "raise"

QueryAndPop(coll, k) ==
    [ documents |-> [i \in 1..Min(k, Len(coll)) |-> coll[i].text],
      collection |-> SubSeq(coll, Min(k, Len(coll)) + 1, Len(coll)) ]

\* self.collection.query(query_embeddings=[embedding], n_results=k): the texts
\* of up to k chunks, and the collection as the call leaves it
collection_query(coll, k) ==
    [ documents |-> [i \in 1..Min(k, Len(coll)) |-> coll[i].text],
      collection |-> coll ]

NeverShortCircuit(docs) == FALSE

\* generate_response: `if not retrieved_docs`
ShortCircuit(docs) == docs = <<>>

\* "\n-----\n".join(retrieved_docs) and the question, in the prompt template
RECURSIVE join(_)
join(docs) ==
    IF docs = <<>> THEN <<>>
    ELSE IF Len(docs) = 1 THEN <<docs[1]>>
    ELSE <<docs[1], "\n-----\n">> \o join(Tail(docs))

PromptOf(docs, query) == [context |-> join(docs), question |-> query]

\* ollama_llm.get_num_tokens(prompt): one token per piece of the prompt
get_num_tokens(p) == Len(p.context) + 1

ReplaceByChunk(streamed, chunk) == chunk

\* generate_response: streamed_response += chunk
Accumulate(streamed, chunk) == streamed \o chunk

RenderStripped(text) == remove_tags(text)

\* chat loop: response_placeholder.markdown(streamed_response)
Render(text) == text

\* The except branch of the chat turn: the error becomes the assistant message,
\* st.rerun() starts the next run of the script
ExceptBranch(e) ==
    /\ response' = ErrorResponse(e)
    /\ messages' = Append(messages, "assistant")
    /\ pc' = "idle"

\* st.chat_input: a question is submitted; the run reaches the for statement
Submit(q) ==
    /\ pc = "idle"
    /\ Len(messages) < max_messages
    /\ db_path_exists' = (db_path_exists \/ AppRag.client)
    /\ rag' = AppRag
    /\ messages' = Append(messages, "user")
    /\ ResetLocals
    /\ prompt' = q
    /\ gen' = "created"
    /\ pc' = "streaming"
    /\ UNCHANGED <<pdf, pdf_name, processing_complete, ollama_model, ingest_runs,
                   db_subdir, collection, interrupts>>

\* First next(): _retrieve, the empty-context return, prompt assembly,
\* get_num_tokens and the call of stream.  up: the embedding provider answers.
PullFirst(up) ==
    /\ pc = "streaming"
    /\ gen = "created"
    /\ IF _generate_embeddings(up) = "raise"
       THEN /\ embed_failed' = TRUE
            /\ gen' = "raised"
            /\ gen_error' = "ProviderUnavailable"
            /\ ExceptBranch("ProviderUnavailable")
            /\ UNCHANGED <<collection, retrieved_docs, return_value,
                           num_tokens_calls, stream_calls>>
       ELSE LET q == collection_query(collection, n_results)
            IN  /\ embed_failed' = ~up
                /\ collection' = q.collection
                /\ retrieved_docs' = q.documents
                /\ IF ShortCircuit(q.documents)
                   THEN \* return "No relevant information found." ends the
                        \* generator without an item; the loop body never
                        \* runs and line 346 reads the unbound token_count
                        /\ gen' = "returned"
                        /\ return_value' = Fallback
                        /\ gen_error' = "none"
                        /\ ExceptBranch("NameError")
                        /\ UNCHANGED <<num_tokens_calls, stream_calls>>
                   ELSE /\ gen' = "started"
                        /\ num_tokens_calls' = num_tokens_calls + 1
                        /\ stream_calls' = stream_calls + 1
                        /\ UNCHANGED <<return_value, gen_error, response, messages, pc>>
    /\ UNCHANGED <<pdf, pdf_name, processing_complete, ollama_model, ingest_runs,
                   db_path_exists, db_subdir, rag, prompt, fragments, gen_streamed,
                   observed, streamed_response, metadata, rendered, remove_tags_calls,
                   interrupts>>

\* The stream produces a fragment: the generator yields the accumulated text,
\* the loop body stores and renders it
PullNext(f) ==
    /\ pc = "streaming"
    /\ gen \in {"started", "yielded"}
    /\ Len(fragments) < MaxFragments
    /\ fragments' = Append(fragments, f)
    /\ gen_streamed' = Accumulate(gen_streamed, f)
    /\ observed' = Append(observed, TextItem(gen_streamed'))
    /\ streamed_response' = gen_streamed'
    /\ rendered' = Append(rendered, Render(streamed_response'))
    /\ gen' = "yielded"
    /\ UNCHANGED <<session, store, rag, pc, prompt, gen_error, return_value, embed_failed,
                   retrieved_docs, metadata, remove_tags_calls, response,
                   num_tokens_calls, stream_calls, interrupts>>

\* The stream ends after t seconds: the generator yields the metadata tuple
StreamEnd(t) ==
    /\ pc = "streaming"
    /\ gen \in {"started", "yielded"}
    /\ LET m == <<get_num_tokens(PromptOf(retrieved_docs, prompt)), _format_time(t)>>
       IN  /\ observed' = Append(observed, MetaItem(m))
           /\ metadata' = m
    /\ gen' = "meta"
    /\ UNCHANGED <<session, store, rag, pc, prompt, gen_error, return_value, embed_failed,
                   retrieved_docs, fragments, gen_streamed, streamed_response, rendered,
                   remove_tags_calls, response, num_tokens_calls, stream_calls, interrupts>>

\* The generation backend fails while streaming
StreamFail ==
    /\ pc = "streaming"
    /\ gen \in {"started", "yielded"}
    /\ gen' = "raised"
    /\ gen_error' = "ProviderUnavailable"
    /\ ExceptBranch("ProviderUnavailable")
    /\ UNCHANGED <<pdf, pdf_name, processing_complete, ollama_model, ingest_runs, store,
                   rag, prompt, return_value, embed_failed, retrieved_docs, fragments,
                   gen_streamed, observed, streamed_response, metadata, rendered,
                   remove_tags_calls, num_tokens_calls, stream_calls, interrupts>>

\* next() after the metadata: the generator is exhausted, the loop ends and
\* the run reaches st.write
PullEnd ==
    /\ pc = "streaming"
    /\ gen = "meta"
    /\ gen' = "exhausted"
    /\ pc' = "write"
    /\ UNCHANGED <<session, store, rag, prompt, gen_error, return_value, embed_failed,
                   retrieved_docs, fragments, gen_streamed, observed, streamed_response,
                   metadata, rendered, remove_tags_calls, response, num_tokens_calls,
                   stream_calls, interrupts>>

\* The response is built from remove_tags(streamed_response) and stored
Finish ==
    /\ pc = "write"
    /\ remove_tags_calls' = Append(remove_tags_calls, [arg |-> streamed_response, gen |-> gen])
    /\ response' = [kind |-> "answer", text |-> remove_tags(streamed_response),
                    meta |-> metadata, error |-> "none"]
    /\ messages' = Append(messages, "assistant")
    /\ pc' = "idle"
    /\ UNCHANGED <<pdf, pdf_name, processing_complete, ollama_model, ingest_runs, store,
                   rag, prompt, gen, gen_error, return_value, embed_failed, retrieved_docs,
                   fragments, gen_streamed, observed, streamed_response, metadata,
                   rendered, num_tokens_calls, stream_calls, interrupts>>

\* The run is stopped at a Streamlit call (a rerun request, a closed tab)
\* before the assistant message is appended
Interrupt ==
    /\ pc \in {"streaming", "write"}
    /\ gen # "started"
    /\ interrupts < MaxInterrupts
    /\ interrupts' = interrupts + 1
    /\ gen' = IF gen = "exhausted" THEN gen ELSE "closed"
    /\ pc' = "idle"
    /\ UNCHANGED <<session, store, rag, prompt, gen_error, return_value, embed_failed,
                   retrieved_docs, fragments, gen_streamed, observed, streamed_response,
                   metadata, rendered, remove_tags_calls, response, num_tokens_calls,
                   stream_calls>>

-----------------------------------------------------------------------------
(* Specifications *)

\* The application: every widget event, chat turns over plain fragments
Next ==
    \/ \E f \in PdfFiles, first \in {"file", "dir"} : Upload(f, first)
    \/ RemoveUpload
    \/ \E ok \in BOOLEAN, sub \in BOOLEAN : StartProcessing(ok, sub)
    \/ ClearChat
    \/ \E m \in Models : SelectModel(m)
    \/ SessionRestart
    \/ \E q \in Queries : Len(messages) < 2 * MaxTurns /\ Submit(q)
    \/ \E up \in BOOLEAN : PullFirst(up)
    \/ \E f \in PlainFragments : PullNext(f)
    \/ \E t \in ElapsedTimes : StreamEnd(t)
    \/ StreamFail
    \/ PullEnd
    \/ Finish
    \/ Interrupt

Spec == Init /\ [][Next]_vars

\* Chat turns over fragments that carry tags and blanks, one document
NextStream ==
    \/ \E first \in {"file", "dir"} : Upload("a.pdf", first)
    \/ \E sub \in BOOLEAN : StartProcessing(TRUE, sub)
    \/ \E q \in Queries : Len(messages) < 2 * MaxTurns /\ Submit(q)
    \/ \E up \in BOOLEAN : PullFirst(up)
    \/ \E f \in Fragments : PullNext(f)
    \/ \E t \in ElapsedTimes : StreamEnd(t)
    \/ StreamFail
    \/ PullEnd
    \/ Finish
    \/ Interrupt

SpecStream == Init /\ [][NextStream]_vars

\* A long chat: questions until the message limit, one document
NextChat ==
    \/ \E first \in {"file", "dir"} : Upload("a.pdf", first)
    \/ \E sub \in BOOLEAN : StartProcessing(TRUE, sub)
    \/ Submit("q1")
    \/ \E up \in BOOLEAN : PullFirst(up)
    \/ PullNext(<<"a">>)
    \/ StreamEnd(3)
    \/ PullEnd
    \/ Finish
    \/ Interrupt

SpecChat == Init /\ [][NextChat]_vars

\* The class used on its own: before the first construction there is no
\* store directory and no instance
InitConstruct ==
    /\ pdf = "None"
    /\ pdf_name = "None"
    /\ processing_complete = FALSE
    /\ messages = <<>>
    /\ ollama_model = "deepseek-r1:7b"
    /\ db_path_exists = FALSE
    /\ db_subdir = FALSE
    /\ collection = <<>>
    /\ rag = NoRag
    /\ ingest_runs = 0
    /\ pc = "idle"
    /\ prompt = "none"
    /\ gen = "none"
    /\ gen_error = "none"
    /\ return_value = <<>>
    /\ embed_failed = FALSE
    /\ retrieved_docs = <<>>
    /\ fragments = <<>>
    /\ gen_streamed = <<>>
    /\ observed = <<>>
    /\ streamed_response = <<>>
    /\ metadata = <<>>
    /\ rendered = <<>>
    /\ remove_tags_calls = <<>>
    /\ response = NoResponse
    /\ num_tokens_calls = 0
    /\ stream_calls = 0
    /\ interrupts = 0

NextConstruct ==
    \/ \E name \in CollectionNames : Construct(name)
    \/ \E f \in PdfFiles, first \in {"file", "dir"} : Upload(f, first)
    \/ RemoveUpload
    \/ \E ok \in BOOLEAN, sub \in BOOLEAN : StartProcessing(ok, sub)
    \/ SessionRestart

SpecConstruct == InitConstruct /\ [][NextConstruct]_vars

-----------------------------------------------------------------------------
(* Properties *)

IsTextOf(item, n) == item.kind = "str" /\ item.text = Concat(SubSeq(fragments, 1, n))

\* C1: when retrieval returns no passages, the consumer iterating over what
\* generate_response returns observes the fallback answer as a text item.
FallbackDelivered ==
    (gen = "returned" /\ retrieved_docs = <<>>) =>
        /\ \E i \in 1..Len(observed) : observed[i].kind = "str" /\ observed[i].text = Fallback
        /\ streamed_response = Fallback

\* C2: the items observed are the accumulated prefixes of the fragments, in
\* order, then exactly one metadata record, which is the last item; the last
\* text item is the concatenation of all fragments.
StreamOrder ==
    /\ \A i \in 1..Len(observed) :
          IF observed[i].kind = "tuple"
          THEN i = Len(observed) /\ i = Len(fragments) + 1
          ELSE i <= Len(fragments) /\ IsTextOf(observed[i], i)
    /\ gen \in {"started", "yielded"} => Len(observed) = Len(fragments)
    /\ gen \in {"meta", "exhausted"} =>
          /\ Len(observed) = Len(fragments) + 1
          /\ observed[Len(observed)].kind = "tuple"
          /\ observed[Len(observed)].meta = metadata
          /\ streamed_response = Concat(fragments)

StreamOrderWitness ==
    /\ gen = "exhausted"
    /\ Len(fragments) = 3
    /\ fragments[1] # fragments[2]
    /\ Len(observed) = 4

\* C3: when retrieval returns no passages, neither get_num_tokens nor stream
\* is called for that query.
NoEngineCallOnEmpty ==
    (gen \notin {"none", "created"} /\ ~embed_failed /\ retrieved_docs = <<>>) =>
        /\ num_tokens_calls = 0
        /\ stream_calls = 0
        /\ gen \in {"returned", "closed"}

NoEngineCallOnEmptyWitness ==
    /\ gen = "returned"
    /\ retrieved_docs = <<>>
    /\ return_value = Fallback
    /\ pc = "idle"

\* C4: when the embedding provider is unavailable for the query, the
\* generator raises the provider's error: it never ends with the
\* empty-context return, and the generation engine is not called.
EmbedFailurePropagates ==
    embed_failed =>
        /\ gen = "raised"
        /\ gen_error = "ProviderUnavailable"
        /\ return_value # Fallback
        /\ response = ErrorResponse("ProviderUnavailable")
        /\ num_tokens_calls = 0
        /\ stream_calls = 0

EmbedFailurePropagatesWitness ==
    /\ embed_failed
    /\ gen = "raised"
    /\ collection = <<>>
    /\ pc = "idle"

\* C5: the collection holds chunks of at most one document, each at most once.
OneDocumentOnce ==
    \A i, j \in 1..Len(collection) :
        /\ collection[i].doc = collection[j].doc
        /\ i # j => collection[i] # collection[j]

\* C6: no step of a chat turn (retrieval, a fragment, the metadata, the end,
\* an error, an early stop) changes the vector store.
QueryLeavesStore ==
    [][pc # "idle" => store' = store]_vars

QueryLeavesStoreWitness ==
    /\ pc = "streaming"
    /\ Len(observed) >= 1
    /\ Len(collection) >= 2

\* C7: every text rendered during streaming is the accumulated string as it
\* is; remove_tags is called at most once, after the generator is exhausted,
\* on the complete accumulated string.
PostProcessingLast ==
    /\ \A i \in 1..Len(rendered) : rendered[i] = Concat(SubSeq(fragments, 1, i))
    /\ Len(remove_tags_calls) <= 1
    /\ \A i \in 1..Len(remove_tags_calls) :
          /\ remove_tags_calls[i].gen = "exhausted"
          /\ remove_tags_calls[i].arg = Concat(fragments)
    /\ response.kind = "answer" => response.text = remove_tags(Concat(fragments))

PostProcessingLastWitness ==
    /\ response.kind = "answer"
    /\ Len(rendered) = 3
    /\ re_sub_think(Concat(fragments)) # Concat(fragments)
    /\ Len(remove_tags_calls) = 1

\* C8: constructing RAGSystem with an empty or missing collection_name raises; no store
\* client is created, no collection is opened, the store is as it was.
EmptyNameFails ==
    [][Falsy(rag'.collection_name) =>
          (rag'.raised /\ ~rag'.client /\ ~rag'.collection_open /\ store' = store)]_vars

EmptyNameFailsWitness ==
    /\ rag.collection_name = ""
    /\ rag.raised
    /\ ~db_path_exists

\* C9: the chat history never has more than max_messages entries.
MessagesBounded == Len(messages) <= max_messages

\* C10: between two resets of processing_complete ingestion starts at most
\* once; the flag is set when ingestion starts, whether it succeeds or not,
\* and is reset only when the document name in the session changes.
IngestOnce ==
    [][ /\ ingest_runs' <= 1
        /\ ingest_runs' > ingest_runs => processing_complete'
        /\ (processing_complete /\ ~processing_complete') => pdf_name' # pdf_name ]_vars

IngestOnceWitness ==
    /\ ingest_runs = 1
    /\ processing_complete
    /\ rag = NoRag
    /\ pdf # "None"
====
